---- MODULE Spec2Model ----
(***************************************************************************)
(* Model of the legal-news feed application (src/src/App.tsx): the App     *)
(* component's state, the fetchNews pipeline with its two await points,    *)
(* the derived category list and filtered list, and NewsCard's relative    *)
(* time label.  Text that the code inspects character by character (tags,  *)
(* titles, descriptions, URLs, the search query) is a sequence of          *)
(* one-character strings; text that is only stored or compared whole       *)
(* (articleId, error messages, time labels) is a string.                   *)
(***************************************************************************)
EXTENDS Integers, Sequences, FiniteSets, TLC

VARIABLES articles, loading, activeCategory, breakingNewsEnabled, searchQuery,
          error, inflight, fetchCount, lastUrl, lastSettled, now, card

vars == <<articles, loading, activeCategory, breakingNewsEnabled, searchQuery,
          error, inflight, fetchCount, lastUrl, lastSettled, now, card>>

appVars == <<articles, loading, activeCategory, breakingNewsEnabled, searchQuery,
             error, inflight, fetchCount, lastUrl, lastSettled>>

(***************************************************************************)
(* Bounds of the model.                                                    *)
(***************************************************************************)
\* fetchNews invocations in one run, the one at mount included
MaxRequests == 3
\* length of an articles array delivered by the server
MaxFeed == 2
\* length of a generated title or search query in SpecFilter
MaxTextLen == 2
\* length of a Feed in SpecFilter
MaxFilterFeed == 2
\* whole hours between publishedAt and now explored by SpecTime
MaxHours == 75

(***************************************************************************)
(* JavaScript values.                                                      *)
(***************************************************************************)
null == "null"
\* an absent text value; no character sequence equals it
undefined == <<"undefined">>

\* 1000 * 60 * 60
HourMs == 1000 * 60 * 60

Range(s) == {s[i] : i \in 1..Len(s)}

RECURSIVE SeqsUpTo(_, _)
\* all sequences over S of length at most n
SeqsUpTo(S, n) ==
    IF n = 0 THEN {<<>>}
    ELSE LET shorter == SeqsUpTo(S, n - 1)
         IN  shorter \cup {Append(s, x) : s \in shorter, x \in S}

(***************************************************************************)
(* String literals of the source, spelled out as character sequences.      *)
(***************************************************************************)
Title1 ==
    <<"S", "u", "p", "r", "e", "m", "e", " ", "C", "o", "u", "r", "t", " ", "R", "u",
    "l", "e", "s", " ", "o", "n", " ", "C", "o", "r", "p", "o", "r", "a", "t", "e",
    " ", "L", "i", "a", "b", "i", "l", "i", "t", "y", " ", "i", "n", " ", "E", "n",
    "v", "i", "r", "o", "n", "m", "e", "n", "t", "a", "l", " ", "C", "a", "s", "e",
    "s">>

Description1 ==
    <<"T", "h", "e", " ", "S", "u", "p", "r", "e", "m", "e", " ", "C", "o", "u", "r",
    "t", "'", "s", " ", "l", "a", "n", "d", "m", "a", "r", "k", " ", "d", "e", "c",
    "i", "s", "i", "o", "n", " ", "e", "s", "t", "a", "b", "l", "i", "s", "h", "e",
    "s", " ", "n", "e", "w", " ", "p", "r", "e", "c", "e", "d", "e", "n", "t", " ",
    "f", "o", "r", " ", "c", "o", "r", "p", "o", "r", "a", "t", "e", " ", "e", "n",
    "v", "i", "r", "o", "n", "m", "e", "n", "t", "a", "l", " ", "r", "e", "s", "p",
    "o", "n", "s", "i", "b", "i", "l", "i", "t", "y", ",", " ", "p", "o", "t", "e",
    "n", "t", "i", "a", "l", "l", "y", " ", "a", "f", "f", "e", "c", "t", "i", "n",
    "g", " ", "t", "h", "o", "u", "s", "a", "n", "d", "s", " ", "o", "f", " ", "p",
    "e", "n", "d", "i", "n", "g", " ", "c", "a", "s", "e", "s", " ", "n", "a", "t",
    "i", "o", "n", "w", "i", "d", "e", ".">>

Title2 ==
    <<"N", "e", "w", " ", "F", "e", "d", "e", "r", "a", "l", " ", "T", "a", "x", " ",
    "R", "e", "g", "u", "l", "a", "t", "i", "o", "n", "s", " ", "I", "m", "p", "a",
    "c", "t", " ", "B", "u", "s", "i", "n", "e", "s", "s", " ", "D", "e", "d", "u",
    "c", "t", "i", "o", "n", "s">>

Description2 ==
    <<"R", "e", "c", "e", "n", "t", " ", "I", "R", "S", " ", "g", "u", "i", "d", "e",
    "l", "i", "n", "e", "s", " ", "i", "n", "t", "r", "o", "d", "u", "c", "e", " ",
    "s", "i", "g", "n", "i", "f", "i", "c", "a", "n", "t", " ", "c", "h", "a", "n",
    "g", "e", "s", " ", "t", "o", " ", "b", "u", "s", "i", "n", "e", "s", "s", " ",
    "e", "x", "p", "e", "n", "s", "e", " ", "d", "e", "d", "u", "c", "t", "i", "o",
    "n", "s", ",", " ", "r", "e", "q", "u", "i", "r", "i", "n", "g", " ", "i", "m",
    "m", "e", "d", "i", "a", "t", "e", " ", "a", "t", "t", "e", "n", "t", "i", "o",
    "n", " ", "f", "r", "o", "m", " ", "c", "o", "r", "p", "o", "r", "a", "t", "e",
    " ", "t", "a", "x", " ", "a", "t", "t", "o", "r", "n", "e", "y", "s", ".">>

Title3 ==
    <<"I", "n", "t", "e", "r", "n", "a", "t", "i", "o", "n", "a", "l", " ", "T", "r",
    "a", "d", "e", " ", "L", "a", "w", " ", "U", "p", "d", "a", "t", "e", "s", " ",
    "A", "f", "f", "e", "c", "t", " ", "C", "r", "o", "s", "s", "-", "B", "o", "r",
    "d", "e", "r", " ", "T", "r", "a", "n", "s", "a", "c", "t", "i", "o", "n", "s">>

Description3 ==
    <<"N", "e", "w", " ", "b", "i", "l", "a", "t", "e", "r", "a", "l", " ", "t", "r",
    "a", "d", "e", " ", "a", "g", "r", "e", "e", "m", "e", "n", "t", "s", " ", "i",
    "n", "t", "r", "o", "d", "u", "c", "e", " ", "c", "o", "m", "p", "l", "e", "x",
    " ", "r", "e", "g", "u", "l", "a", "t", "o", "r", "y", " ", "f", "r", "a", "m",
    "e", "w", "o", "r", "k", "s", " ", "t", "h", "a", "t", " ", "r", "e", "q", "u",
    "i", "r", "e", " ", "c", "a", "r", "e", "f", "u", "l", " ", "l", "e", "g", "a",
    "l", " ", "a", "n", "a", "l", "y", "s", "i", "s", " ", "f", "o", "r", " ", "m",
    "u", "l", "t", "i", "n", "a", "t", "i", "o", "n", "a", "l", " ", "c", "o", "r",
    "p", "o", "r", "a", "t", "i", "o", "n", "s", ".">>

Title4 ==
    <<"C", "r", "i", "m", "i", "n", "a", "l", " ", "J", "u", "s", "t", "i", "c", "e",
    " ", "R", "e", "f", "o", "r", "m", " ", "B", "i", "l", "l", " ", "P", "a", "s",
    "s", "e", "s", " ", "S", "e", "n", "a", "t", "e", " ", "C", "o", "m", "m", "i",
    "t", "t", "e", "e">>

Description4 ==
    <<"P", "r", "o", "p", "o", "s", "e", "d", " ", "l", "e", "g", "i", "s", "l", "a",
    "t", "i", "o", "n", " ", "i", "n", "t", "r", "o", "d", "u", "c", "e", "s", " ",
    "s", "i", "g", "n", "i", "f", "i", "c", "a", "n", "t", " ", "c", "h", "a", "n",
    "g", "e", "s", " ", "t", "o", " ", "s", "e", "n", "t", "e", "n", "c", "i", "n",
    "g", " ", "g", "u", "i", "d", "e", "l", "i", "n", "e", "s", " ", "a", "n", "d",
    " ", "p", "l", "e", "a", " ", "b", "a", "r", "g", "a", "i", "n", "i", "n", "g",
    " ", "p", "r", "o", "c", "e", "d", "u", "r", "e", "s", " ", "i", "n", " ", "f",
    "e", "d", "e", "r", "a", "l", " ", "c", "r", "i", "m", "i", "n", "a", "l", " ",
    "c", "a", "s", "e", "s", ".">>

BaseUrl ==
    <<"h", "t", "t", "p", "s", ":", "/", "/", "a", "t", "t", "o", "r", "n", "e", "y",
    "-", "i", ".", "o", "n", "r", "e", "n", "d", "e", "r", ".", "c", "o", "m", "/",
    "a", "p", "i", "/", "n", "e", "w", "s">>

TagParam ==
    <<"?", "t", "a", "g", "=">>

Corporate ==
    <<"C", "o", "r", "p", "o", "r", "a", "t", "e">>

Environmental ==
    <<"E", "n", "v", "i", "r", "o", "n", "m", "e", "n", "t", "a", "l">>

TaxLaw ==
    <<"T", "a", "x", " ", "L", "a", "w">>

International ==
    <<"I", "n", "t", "e", "r", "n", "a", "t", "i", "o", "n", "a", "l">>

Trade ==
    <<"T", "r", "a", "d", "e">>

Criminal ==
    <<"C", "r", "i", "m", "i", "n", "a", "l">>

Legislation ==
    <<"L", "e", "g", "i", "s", "l", "a", "t", "i", "o", "n">>

All ==
    <<"a", "l", "l">>

(***************************************************************************)
(* String operations of the JavaScript runtime used by the code.           *)
(***************************************************************************)
UpperCaseLetters ==
    <<"A", "B", "C", "D", "E", "F", "G", "H", "I", "J", "K", "L", "M",
      "N", "O", "P", "Q", "R", "S", "T", "U", "V", "W", "X", "Y", "Z">>

LowerCaseLetters ==
    <<"a", "b", "c", "d", "e", "f", "g", "h", "i", "j", "k", "l", "m",
      "n", "o", "p", "q", "r", "s", "t", "u", "v", "w", "x", "y", "z">>

\* String.prototype.toLowerCase on the characters of the model
toLowerCase(s) ==
    [i \in 1..Len(s) |->
        IF \E k \in 1..26 : UpperCaseLetters[k] = s[i]
        THEN LowerCaseLetters[CHOOSE k \in 1..26 : UpperCaseLetters[k] = s[i]]
        ELSE s[i]]

\* String.prototype.includes
includes(s, q) ==
    \E i \in 0..(Len(s) - Len(q)) : SubSeq(s, i + 1, i + Len(q)) = q

\* String.prototype.indexOf for one character, 1-based, 0 when absent
indexOf(s, c) ==
    IF \E i \in 1..Len(s) : s[i] = c
    THEN CHOOSE i \in 1..Len(s) : s[i] = c /\ \A j \in 1..(i - 1) : s[j] # c
    ELSE 0

(***************************************************************************)
(* The request URL and what the HTTP request carries.                      *)
(***************************************************************************)
\* tag ? `${base}?tag=${tag}` : base  -- undefined and '' are falsy
fetchUrl(tag) ==
    IF tag # undefined /\ tag # <<>>
    THEN BaseUrl \o TagParam \o tag
    ELSE BaseUrl

\* the query string fetch sends: the fragment (from the first '#') is
\* dropped, the query starts after the first '?', a space is sent as %20
wireQuery(url) ==
    LET hash   == indexOf(url, "#")
        noFrag == IF hash = 0 THEN url ELSE SubSeq(url, 1, hash - 1)
        qmark  == indexOf(noFrag, "?")
        raw    == SubSeq(noFrag, qmark + 1, Len(noFrag))
        enc[i \in 0..Len(raw)] ==
            IF i = 0 THEN <<>>
            ELSE enc[i - 1] \o (IF raw[i] = " " THEN <<"%", "2", "0">> ELSE <<raw[i]>>)
    IN  IF qmark = 0 THEN undefined ELSE enc[Len(raw)]

RECURSIVE queryDecode(_)
\* decoding of a query value: %20 and '+' are a space
queryDecode(s) ==
    IF s = <<>> THEN <<>>
    ELSE IF Len(s) >= 3 /\ SubSeq(s, 1, 3) = <<"%", "2", "0">>
         THEN <<" ">> \o queryDecode(SubSeq(s, 4, Len(s)))
    ELSE IF s[1] = "+" THEN <<" ">> \o queryDecode(Tail(s))
    ELSE <<s[1]>> \o queryDecode(Tail(s))

RECURSIVE queryParam(_, _)
\* the value of the first name=value pair of the query with that name,
\* pairs separated by '&'; undefined when there is none
queryParam(query, name) ==
    IF query = undefined \/ query = <<>> THEN undefined
    ELSE LET amp  == indexOf(query, "&")
             pair == IF amp = 0 THEN query ELSE SubSeq(query, 1, amp - 1)
             rest == IF amp = 0 THEN <<>> ELSE SubSeq(query, amp + 1, Len(query))
             eq   == indexOf(pair, "=")
             key  == IF eq = 0 THEN pair ELSE SubSeq(pair, 1, eq - 1)
             val  == IF eq = 0 THEN <<>> ELSE SubSeq(pair, eq + 1, Len(pair))
         IN  IF queryDecode(key) = name THEN queryDecode(val)
             ELSE queryParam(rest, name)

\* the tag the request for this URL is scoped to
requestTag(url) == queryParam(wireQuery(url), <<"t", "a", "g">>)

(***************************************************************************)
(* Articles.                                                               *)
(***************************************************************************)
\* Date.prototype.toISOString: the ISO-8601 string of the instant ms
toISOString(ms) == <<ms>>

\* a publishedAt string that new Date() cannot parse
InvalidDate == <<>>

\* new Date(dateString).getTime() of a parsable string
getTime(dateString) == dateString[1]

\* the fallback data set of the catch block, built at time t = Date.now()
fallbackArticles(t) ==
    << [articleId |-> "1", title |-> Title1, description |-> Description1,
        tags |-> <<Corporate, Environmental>>,
        publishedAt |-> toISOString(t - 2 * 60 * 60 * 1000),
        source |-> [name |-> "Legal Tribune", url |-> "https://legaltribune.com"]],
       [articleId |-> "2", title |-> Title2, description |-> Description2,
        tags |-> <<Corporate, TaxLaw>>,
        publishedAt |-> toISOString(t - 4 * 60 * 60 * 1000),
        source |-> [name |-> "Tax Law Review", url |-> "https://taxlawreview.com"]],
       [articleId |-> "3", title |-> Title3, description |-> Description3,
        tags |-> <<International, Trade>>,
        publishedAt |-> toISOString(t - 6 * 60 * 60 * 1000),
        source |-> [name |-> "International Law Journal",
                    url |-> "https://intlawjournal.com"]],
       [articleId |-> "4", title |-> Title4, description |-> Description4,
        tags |-> <<Criminal, Legislation>>,
        publishedAt |-> toISOString(t - 8 * 60 * 60 * 1000),
        source |-> [name |-> "Criminal Law Reporter",
                    url |-> "https://crimlawreporter.com"]] >>

\* Date.now() when the application starts, in ms
StartTime == 400000000

\* articles the news endpoint can deliver (interface Article)
ServerArticles ==
    { [articleId |-> "101",
       title |-> <<"M", "&", "A", " ", "T", "a", "x">>,
       description |-> <<"M", "e", "r", "g", "e", "r", " ", "l", "a", "w">>,
       tags |-> << <<"M", "&", "A">>, Corporate >>,
       publishedAt |-> toISOString(StartTime - 3 * HourMs),
       source |-> [name |-> "Legal Tribune", url |-> "https://legaltribune.com"]],
      [articleId |-> "102",
       title |-> <<"T", "r", "a", "d", "e", " ", "L", "A", "W">>,
       description |-> <<"t", "a", "x", "e", "s">>,
       tags |-> << Corporate, Trade, Corporate >>,
       publishedAt |-> toISOString(StartTime - 30 * HourMs),
       source |-> [name |-> "Tax Law Review", url |-> "https://taxlawreview.com"]] }

\* data.data.articles of a response (interface NewsResponse)
ServerFeeds == SeqsUpTo(ServerArticles, MaxFeed)

\* the JSON envelopes a response body can parse to
Envelopes ==
    {[status |-> "success", data |-> [articles |-> feed, count |-> Len(feed)]] :
        feed \in ServerFeeds}
    \cup {[status |-> "error", data |-> [articles |-> <<>>, count |-> 0]]}

\* what a rejected fetch() or response.json() throws
FetchErrors == {[isError |-> TRUE, message |-> "Failed to fetch"]}
JsonErrors == {[isError |-> TRUE, message |-> "Unexpected token < in JSON at position 0"]}

\* text typed (or pasted) into the search box
SearchInputs == {<<>>, <<"t", "a", "x">>, <<"L", "A", "W">>}

(***************************************************************************)
(* Derived values of a render of App.                                      *)
(***************************************************************************)
\* articles.flatMap(article => article.tags)
flatTags(as) ==
    LET f[i \in 0..Len(as)] == IF i = 0 THEN <<>> ELSE f[i - 1] \o as[i].tags
    IN  f[Len(as)]

\* Array.from(s) with the Set left out: duplicates are kept
uniqueInOrderKeepsDuplicates(s) == s

\* Array.from(new Set(s)): first occurrences, in order
uniqueInOrder(s) ==
    LET f[i \in 0..Len(s)] ==
            IF i = 0 THEN <<>>
            ELSE IF s[i] \in Range(f[i - 1]) THEN f[i - 1]
            ELSE Append(f[i - 1], s[i])
    IN  f[Len(s)]

categoriesOf(as) == uniqueInOrder(flatTags(as))

categories == categoriesOf(articles)

\* the query is compared without toLowerCase()
filterArticlesQueryCaseSensitive(as, q) ==
    SelectSeq(as, LAMBDA article :
        \/ q = <<>>
        \/ includes(toLowerCase(article.title), q)
        \/ includes(toLowerCase(article.description), q))

filterArticles(as, q) ==
    SelectSeq(as, LAMBDA article :
        \/ q = <<>>
        \/ includes(toLowerCase(article.title), toLowerCase(q))
        \/ includes(toLowerCase(article.description), toLowerCase(q)))

filteredArticles == filterArticles(articles, searchQuery)

(***************************************************************************)
(* NewsCard.formatTimeAgo                                                  *)
(***************************************************************************)
\* diffInHours <= 24 in place of diffInHours < 24
formatTimeAgoLateDay(dateString, t) ==
    IF dateString = InvalidDate
    THEN "NaN days ago"
    ELSE
    LET date == getTime(dateString)
        diffInHours == (t - date) \div (1000 * 60 * 60)
        diffInDays == diffInHours \div 24
    IN  IF diffInHours < 1 THEN "Just now"
        ELSE IF diffInHours = 1 THEN "1 hour ago"
        ELSE IF diffInHours <= 24 THEN ToString(diffInHours) \o " hours ago"
        ELSE IF diffInDays = 1 THEN "1 day ago"
        ELSE ToString(diffInDays) \o " days ago"

formatTimeAgo(dateString, t) ==
    IF dateString = InvalidDate
    THEN \* getTime() is NaN: every comparison below is false and the last
         \* return formats Math.floor(NaN / 24)
         "NaN days ago"
    ELSE
    LET date == getTime(dateString)
        diffInHours == (t - date) \div (1000 * 60 * 60)
        diffInDays == diffInHours \div 24
    IN  IF diffInHours < 1 THEN "Just now"
        ELSE IF diffInHours = 1 THEN "1 hour ago"
        ELSE IF diffInHours < 24 THEN ToString(diffInHours) \o " hours ago"
        ELSE IF diffInDays = 1 THEN "1 day ago"
        ELSE ToString(diffInDays) \o " days ago"

(***************************************************************************)
(* State of App after it has mounted: the useState initial values, and the *)
(* effect of the first render has called fetchNews().                      *)
(***************************************************************************)
\* hours the clock may advance during a run of SpecTime
MaxTicks == 1

\* a NewsCard: the publishedAt of its article, the time of its last render
\* and the label formatTimeAgo returned in that render
NoCard == [publishedAt |-> InvalidDate, renderedAt |-> 0, label |-> "unmounted"]

NotSettled == [id |-> 0, outcome |-> "none", articles |-> <<>>]

AppInit ==
    /\ articles = <<>>
    /\ loading = TRUE
    /\ activeCategory = All
    /\ breakingNewsEnabled = TRUE
    /\ searchQuery = <<>>
    /\ error = null
    /\ fetchCount = 1
    /\ lastUrl = fetchUrl(undefined)
    /\ inflight = {[id |-> 1, stage |-> "fetch"]}
    /\ lastSettled = NotSettled

Init ==
    /\ AppInit
    /\ now = StartTime
    /\ card = NoCard

(***************************************************************************)
(* fetchNews up to its first await: the request is issued.  fetchCount     *)
(* counts the calls of fetch(url) and lastUrl is the URL of the latest; a  *)
(* request's id is its number in that count.                               *)
(***************************************************************************)
fetchNews(tag) ==
    /\ loading' = TRUE
    /\ error' = null
    /\ fetchCount' = fetchCount + 1
    /\ lastUrl' = fetchUrl(tag)
    /\ inflight' = inflight \cup {[id |-> fetchCount + 1, stage |-> "fetch"]}

\* a click on a button of CategoryFilter: setActiveCategory, the render,
\* and the effect on [activeCategory], which runs only when the value changed
CategoryChange(category) ==
    /\ category \in {All} \cup Range(categories)
    /\ category # activeCategory
    /\ fetchCount < MaxRequests
    /\ activeCategory' = category
    /\ IF category = All THEN fetchNews(undefined) ELSE fetchNews(category)
    /\ UNCHANGED <<articles, breakingNewsEnabled, searchQuery, lastSettled, now, card>>

\* the catch block without setArticles: the previous Feed stays
catchBlockKeepsFeed(r, err, outcome) ==
    /\ error' = IF err.isError THEN err.message ELSE "An error occurred"
    /\ loading' = FALSE
    /\ inflight' = inflight \ {r}
    /\ lastSettled' = [id |-> r.id, outcome |-> outcome, articles |-> <<>>]
    /\ UNCHANGED <<articles, activeCategory, breakingNewsEnabled, searchQuery,
                   fetchCount, lastUrl, now, card>>

\* the catch block followed by the finally block
catchBlock(r, err, outcome) ==
    /\ error' = IF err.isError THEN err.message ELSE "An error occurred"
    /\ articles' = fallbackArticles(now)
    /\ loading' = FALSE
    /\ inflight' = inflight \ {r}
    /\ lastSettled' = [id |-> r.id, outcome |-> outcome, articles |-> <<>>]
    /\ UNCHANGED <<activeCategory, breakingNewsEnabled, searchQuery, fetchCount,
                   lastUrl, now, card>>

\* await fetch(url) rejects
FetchRejects(r, err) ==
    /\ r \in inflight /\ r.stage = "fetch"
    /\ catchBlock(r, err, "fetchThrew")

\* await fetch(url) resolves with !response.ok
ResponseNotOk(r) ==
    /\ r \in inflight /\ r.stage = "fetch"
    /\ catchBlock(r, [isError |-> TRUE, message |-> "Failed to fetch news"], "notOk")

\* await fetch(url) resolves with response.ok: response.json() is awaited
ResponseOk(r) ==
    /\ r \in inflight /\ r.stage = "fetch"
    /\ inflight' = (inflight \ {r}) \cup {[r EXCEPT !.stage = "json"]}
    /\ UNCHANGED <<articles, loading, activeCategory, breakingNewsEnabled,
                   searchQuery, error, fetchCount, lastUrl, lastSettled, now, card>>

\* await response.json() rejects
JsonRejects(r, err) ==
    /\ r \in inflight /\ r.stage = "json"
    /\ catchBlock(r, err, "jsonFailed")

\* await response.json() resolves with data.status === 'success'
JsonSuccess(r, data) ==
    /\ r \in inflight /\ r.stage = "json"
    /\ data.status = "success"
    /\ articles' = data.data.articles
    /\ loading' = FALSE
    /\ inflight' = inflight \ {r}
    /\ lastSettled' = [id |-> r.id, outcome |-> "success",
                       articles |-> data.data.articles]
    /\ UNCHANGED <<activeCategory, breakingNewsEnabled, searchQuery, error,
                   fetchCount, lastUrl, now, card>>

\* await response.json() resolves with another status
JsonErrorStatus(r, data) ==
    /\ r \in inflight /\ r.stage = "json"
    /\ data.status # "success"
    /\ catchBlock(r, [isError |-> TRUE, message |-> "API returned error status"],
                  "badStatus")

\* searchQuery listed in the dependencies of the effect: typing refetches
SetSearchQueryRefetches(value) ==
    /\ value # searchQuery
    /\ searchQuery' = value
    /\ IF activeCategory = All THEN fetchNews(undefined) ELSE fetchNews(activeCategory)
    /\ UNCHANGED <<articles, activeCategory, breakingNewsEnabled, lastSettled,
                   now, card>>

\* onChange of the search input
SetSearchQuery(value) ==
    /\ value # searchQuery
    /\ searchQuery' = value
    /\ UNCHANGED <<articles, loading, activeCategory, breakingNewsEnabled, error,
                   inflight, fetchCount, lastUrl, lastSettled, now, card>>

\* onClick of the breaking-news switch
ToggleBreakingNews ==
    /\ breakingNewsEnabled' = ~breakingNewsEnabled
    /\ UNCHANGED <<articles, loading, activeCategory, searchQuery, error,
                   inflight, fetchCount, lastUrl, lastSettled, now, card>>

\* time passes between two renders of a NewsCard
Tick ==
    /\ now < StartTime + MaxTicks * HourMs
    /\ now' = now + HourMs
    /\ UNCHANGED <<appVars, card>>

Next ==
    \/ \E category \in {All} \cup Range(categories) : CategoryChange(category)
    \/ \E r \in inflight, err \in FetchErrors : FetchRejects(r, err)
    \/ \E r \in inflight : ResponseNotOk(r)
    \/ \E r \in inflight : ResponseOk(r)
    \/ \E r \in inflight, err \in JsonErrors : JsonRejects(r, err)
    \/ \E r \in inflight, data \in Envelopes : JsonSuccess(r, data)
    \/ \E r \in inflight, data \in Envelopes : JsonErrorStatus(r, data)
    \/ \E value \in SearchInputs : SetSearchQuery(value)
    \/ ToggleBreakingNews

\* App reads the clock only to stamp the fallback articles; Spec holds it
\* still, SpecTime below lets it advance
Spec == Init /\ [][Next]_vars

(***************************************************************************)
(* NewsCard: formatTimeAgo on publishedAt values around every whole hour,  *)
(* rendered and re-rendered as time passes.                                *)
(***************************************************************************)
\* ms past a whole number of hours: 0, 1 ms, 59 minutes, 1 ms short of an hour
MsOffsets == {0, 1, 59 * 60 * 1000, HourMs - 1}

DateStrings ==
    {toISOString(StartTime - (h * HourMs + ms)) : h \in (-1)..MaxHours, ms \in MsOffsets}
    \cup {InvalidDate}

InitTime ==
    /\ AppInit
    /\ now = StartTime
    /\ card \in {[publishedAt |-> d, renderedAt |-> StartTime,
                   label |-> formatTimeAgo(d, StartTime)] : d \in DateStrings}

\* a render of the NewsCard
RenderCard ==
    /\ card # NoCard
    /\ card' = [card EXCEPT !.renderedAt = now,
                            !.label = formatTimeAgo(card.publishedAt, now)]
    /\ UNCHANGED <<appVars, now>>

NextTime ==
    \/ RenderCard
    \/ Tick

SpecTime == InitTime /\ [][NextTime]_vars

(***************************************************************************)
(* Search: App after its first fetch delivered a Feed of generated         *)
(* articles, with generated text typed into the search box.                *)
(***************************************************************************)
TitleAlphabet == {"A", "b"}

QueryAlphabet == {"a", "B"}

FilterTitles == SeqsUpTo(TitleAlphabet, MaxTextLen)

FilterQueries == SeqsUpTo(QueryAlphabet, MaxTextLen)

FilterDescriptions == {<<>>, <<"B", "a">>}

FilterArticles ==
    {[articleId |-> "201", title |-> t, description |-> d, tags |-> <<Trade>>,
      publishedAt |-> toISOString(StartTime),
      source |-> [name |-> "Legal Tribune", url |-> "https://legaltribune.com"]] :
        t \in FilterTitles, d \in FilterDescriptions}

InitFilter ==
    /\ articles \in SeqsUpTo(FilterArticles, MaxFilterFeed)
    /\ loading = FALSE
    /\ activeCategory = All
    /\ breakingNewsEnabled = TRUE
    /\ searchQuery = <<>>
    /\ error = null
    /\ fetchCount = 1
    /\ lastUrl = fetchUrl(undefined)
    /\ inflight = {}
    /\ lastSettled = [id |-> 1, outcome |-> "success", articles |-> articles]
    /\ now = StartTime
    /\ card = NoCard

NextFilter == \E value \in FilterQueries : SetSearchQuery(value)

SpecFilter == InitFilter /\ [][NextFilter]_vars

(***************************************************************************)
(* Properties.                                                             *)
(***************************************************************************)
FailureOutcomes == {"fetchThrew", "notOk", "jsonFailed", "badStatus"}

articleIds(as) == [i \in 1..Len(as) |-> as[i].articleId]

\* the Feed is the fallback data set built at time t
IsFallbackAt(as, t) ==
    /\ articleIds(as) = <<"1", "2", "3", "4">>
    /\ [i \in 1..4 |-> as[i].title] = <<Title1, Title2, Title3, Title4>>
    /\ [i \in 1..4 |-> as[i].description] =
           <<Description1, Description2, Description3, Description4>>
    /\ flatTags(as) = <<Corporate, Environmental, Corporate, TaxLaw,
                        International, Trade, Criminal, Legislation>>
    /\ [i \in 1..4 |-> as[i].publishedAt] =
           [i \in 1..4 |-> toISOString(t - 2 * i * HourMs)]

\* the Feed is the fallback data set, built at some time up to now
IsFallback(as) ==
    \E k \in 0..MaxTicks :
        StartTime + k * HourMs <= now /\ IsFallbackAt(as, StartTime + k * HourMs)

\* the request with this id has not settled
Outstanding(id) == \E r \in inflight : r.id = id

\* C1: once every request has settled, the Feed is the result of the latest
\* request (the one issued for the current activeCategory); the result of an
\* older request that settles later is not applied.
C1_OnlyLatestApplied ==
    inflight = {} => lastSettled.id = fetchCount

\* C2: loading is true exactly while the fetch for the current
\* activeCategory (the latest one issued) is outstanding.
C2_LoadingIffOutstanding ==
    loading <=> Outstanding(fetchCount)

\* C3: a fetchNews invocation that fails in any failure mode sets a
\* non-empty error, makes the Feed exactly the 4 fallback articles with ids
\* "1".."4", sets loading false and issues no further request.
C3_FailureFallsBack ==
    [][(lastSettled' # lastSettled /\ lastSettled'.outcome \in FailureOutcomes) =>
          /\ error' \notin {null, ""}
          /\ IsFallbackAt(articles', now)
          /\ loading' = FALSE
          /\ fetchCount' = fetchCount
          /\ lastUrl' = lastUrl
          /\ inflight' = {r \in inflight : r.id # lastSettled'.id}]_vars

C3_Witness ==
    /\ lastSettled.outcome = "jsonFailed"
    /\ lastSettled.id = 2
    /\ IsFallback(articles)
    /\ error # null
    /\ ~loading

\* C4: a fetchNews invocation whose response is OK with status "success"
\* replaces the Feed by the response's articles array and leaves no error.
C4_SuccessReplacesNoError ==
    [][(lastSettled' # lastSettled /\ lastSettled'.outcome = "success") =>
          /\ articles' = lastSettled'.articles
          /\ error' = null]_vars

\* C5: every change of activeCategory issues exactly one fetch, scoped to
\* the new category as the tag query parameter, or without a tag for "all";
\* nothing else issues a fetch.
C5_OneScopedFetchPerChange ==
    [][/\ activeCategory' # activeCategory =>
             /\ fetchCount' = fetchCount + 1
             /\ requestTag(lastUrl') =
                    (IF activeCategory' = All THEN undefined ELSE activeCategory')
       /\ activeCategory' = activeCategory =>
             /\ fetchCount' = fetchCount
             /\ lastUrl' = lastUrl]_vars

\* two characters equal up to letter case
CaseEq(a, b) ==
    \/ a = b
    \/ \E k \in 1..26 : {a, b} = {UpperCaseLetters[k], LowerCaseLetters[k]}

\* q occurs in s as a case-insensitive substring
ContainsIgnoreCase(s, q) ==
    \E i \in 0..(Len(s) - Len(q)) : \A k \in 1..Len(q) : CaseEq(s[i + k], q[k])

\* C6: the displayed list is a sub-sequence of the Feed holding exactly the
\* articles whose title or description contains the query as a
\* case-insensitive substring; for the empty query it is the Feed.
C6_FilterIsMatchingSubsequence ==
    LET shown == filteredArticles
        keep == {i \in 1..Len(articles) :
                    \/ ContainsIgnoreCase(articles[i].title, searchQuery)
                    \/ ContainsIgnoreCase(articles[i].description, searchQuery)}
    IN  /\ \E f \in [1..Len(shown) -> 1..Len(articles)] :
              /\ \A j, k \in 1..Len(shown) : j < k => f[j] < f[k]
              /\ \A j \in 1..Len(shown) : shown[j] = articles[f[j]]
              /\ {f[j] : j \in 1..Len(shown)} = keep
        /\ searchQuery = <<>> => shown = articles

C6_Witness ==
    /\ Len(articles) = 2
    /\ searchQuery = <<"a", "B">>
    /\ articles[1].title = <<"b", "A">>
    /\ articles[2].title = <<"A", "b">>
    /\ filteredArticles = <<articles[2]>>

\* C7: the derived category list holds exactly the distinct tags of the
\* articles of the current Feed, each once.
C7_CategoriesAreTagsOfFeed ==
    /\ Range(categories) = UNION {Range(articles[i].tags) : i \in 1..Len(articles)}
    /\ Cardinality(Range(categories)) = Len(categories)

C7_Witness ==
    /\ lastSettled.id = 3
    /\ lastSettled.outcome = "success"
    /\ Len(articles) = 1
    /\ Len(flatTags(articles)) = 3
    /\ categories = <<Corporate, Trade>>

\* C8: with h the whole hours between publishedAt and the time of the render,
\* the label is "Just now" for h < 1, "1 hour ago" for h = 1, "h hours ago"
\* for 2..23, "1 day ago" when h \div 24 = 1 and "d days ago" for
\* d = h \div 24 >= 2; 0h59m, 1h, 23h, 24h and 49h give "Just now",
\* "1 hour ago", "23 hours ago", "1 day ago" and "2 days ago".
C8_TimeAgoLabel ==
    (card # NoCard /\ card.publishedAt # InvalidDate) =>
        LET diff == card.renderedAt - getTime(card.publishedAt)
            h == diff \div HourMs
            d == h \div 24
        IN  /\ h < 1 => card.label = "Just now"
            /\ h = 1 => card.label = "1 hour ago"
            /\ h \in 2..23 => card.label = ToString(h) \o " hours ago"
            /\ d = 1 => card.label = "1 day ago"
            /\ d >= 2 => card.label = ToString(d) \o " days ago"
            /\ diff = 59 * 60 * 1000 => card.label = "Just now"
            /\ diff = HourMs => card.label = "1 hour ago"
            /\ diff = 23 * HourMs => card.label = "23 hours ago"
            /\ diff = 24 * HourMs => card.label = "1 day ago"
            /\ diff = 49 * HourMs => card.label = "2 days ago"

C8_Witness ==
    /\ card.publishedAt # InvalidDate
    /\ card.renderedAt = StartTime + HourMs
    /\ card.renderedAt - getTime(card.publishedAt) = 24 * HourMs
    /\ card.label = "1 day ago"

\* C9: a change of searchQuery issues no fetch and leaves the Feed,
\* activeCategory, loading, error and the category list unchanged; the
\* displayed list is drawn from the loaded Feed.
C9_SearchIsLocal ==
    [][searchQuery' # searchQuery =>
          /\ UNCHANGED <<articles, activeCategory, loading, error, inflight,
                         fetchCount, lastUrl, lastSettled>>
          /\ \E feed \in {articles'}, query \in {searchQuery'} :
                /\ categoriesOf(feed) = categories
                /\ Range(filterArticles(feed, query)) \subseteq Range(articles)]_vars

C9_Witness ==
    /\ searchQuery = <<"L", "A", "W">>
    /\ activeCategory = Corporate
    /\ loading
    /\ Len(articles) = 4
    /\ Len(filteredArticles) = 1

\* C10: when no fetch is outstanding, error is present exactly when the
\* Feed is the fallback data set.
C10_ErrorIffFallback ==
    inflight = {} => (error # null <=> IsFallback(articles))

====
